---- MODULE Spec2Model ----
(***************************************************************************)
(* Model of the UDP <-> QUIC datagram relay of client/client.py.           *)
(*                                                                         *)
(* The three module globals quic_connection, udp_connection_transport and  *)
(* udp_connection_address are the shared session state.  Two callbacks run *)
(* on one asyncio loop: UdpServerProtocol.datagram_received and            *)
(* QuicClientProtocol.quic_event_received.  Each callback is synchronous,  *)
(* so each is one atomic action.  The coroutine main() is modelled by its  *)
(* position pc; its awaits are the points where callbacks can interleave.  *)
(***************************************************************************)
EXTENDS Integers, Sequences, FiniteSets

VARIABLES quic_connection, udp_connection_transport, udp_connection_address,
          pc, terminated, peerLog, last,
          alpnProtocol, selected_alpn,
          logCap, udpLog, frameLog

\* startArgs.alpnProtocol and the value chosen from it.
argVars == <<alpnProtocol, selected_alpn>>

\* The history of the UDP-to-transport path: the datagrams handled and the
\* frames passed to send_datagram_frame, kept for the first logCap datagrams.
logVars == <<logCap, udpLog, frameLog>>

vars == <<quic_connection, udp_connection_transport, udp_connection_address,
          pc, terminated, peerLog, last, argVars, logVars>>

(***************************************************************************)
(* Values.  Python's None is the string "None"; the protocol object, the   *)
(* datagram transport and the peer addresses are opaque tokens.            *)
(***************************************************************************)
None == "None"

Self == "QuicClientProtocol"

UdpTransport == "DatagramTransport"

Addresses == {"A", "B"}

\* Bounds of the enumerated inputs.
MaxPayloadLen == 1

\* How many UDP datagrams the history of the UDP-to-transport path keeps.
MaxLog == 3

\* How many of the most recent UDP source addresses the history keeps.
PeerWindow == 2

MaxFrameLen == 3

MaxByte == 1

\* Byte values used to build the enumerated inputs (a sub-range of 0..255).
InputBytes == 0 .. MaxByte

\* Lengths of the long UDP payloads: high length byte non-zero, and the
\* largest length a "!H" field can carry.
LongLens == {256, 65535}

RECURSIVE SeqsUpTo(_, _)
SeqsUpTo(S, n) ==
    IF n = 0 THEN {<<>>}
    ELSE LET shorter == SeqsUpTo(S, n - 1)
         IN  shorter \cup {Append(s, b) : s \in {t \in shorter : Len(t) = n - 1}, b \in S}

\* A payload of n bytes with a position-dependent content.
Fill(n) == [i \in 1 .. n |-> (i * 7) % 256]

\* b"ping", and the frame carrying b"pong".
Ping == <<112, 105, 110, 103>>

PongFrame == <<0, 4, 112, 111, 110, 103>>

\* Payloads a UDP client sends to the local port.
UdpPayloads ==
    SeqsUpTo(InputBytes, MaxPayloadLen) \cup {Fill(n) : n \in LongLens} \cup {Ping}

\* Contents of DatagramFrameReceived.data: any bytes the remote end sends.
EventData == SeqsUpTo(InputBytes, MaxFrameLen) \cup {PongFrame}

(***************************************************************************)
(* Python and struct primitives.                                           *)
(***************************************************************************)
Min(a, b) == IF a < b THEN a ELSE b

\* data[lo:hi] for 0 <= lo, 0 <= hi: slicing clips to the length, never raises.
Slice(data, lo, hi) ==
    LET h == Min(hi, Len(data))
    IN  IF lo >= h THEN <<>> ELSE SubSeq(data, lo + 1, h)

\* QuicConfiguration(max_datagram_frame_size = 65535)
max_datagram_frame_size == 65535

\* struct.pack("!H", n) raises struct.error outside 0..65535.
PackRaises(n) == n < 0 \/ n > 65535

\* Fault: the length packed least significant byte first ("<H").
PackHLittleEndian(n) == <<n % 256, n \div 256>>

\* struct.pack("!H", n): two bytes, most significant first.
PackH(n) == <<n \div 256, n % 256>>

\* struct.unpack("!H", b) raises struct.error unless b has exactly 2 bytes.
UnpackRaises(b) == Len(b) # 2

\* Fault: the length read least significant byte first ("<H").
UnpackHLittleEndian(b) == b[2] * 256 + b[1]

\* struct.unpack("!H", b)[0]
UnpackH(b) == b[1] * 256 + b[2]

\* data = struct.pack("!H", len(data)) + data
Encode(data) == PackH(Len(data)) \o data

\* length = struct.unpack("!H", bytes(event.data[:2]))[0]
DeclaredLength(data) == UnpackH(Slice(data, 0, 2))

\* Fault: the header is not stripped, event.data[: 2 + length].
DecodePayloadWithHeader(data) == Slice(data, 0, 2 + DeclaredLength(data))

\* data_from_server = event.data[2 : 2 + length]
DecodePayload(data) == Slice(data, 2, 2 + DeclaredLength(data))

(***************************************************************************)
(* What one callback did: the calls it made on its collaborators in order, *)
(* the number of drop records it logged (logger.error / logger.warning),   *)
(* and whether it raised.  logger.info and logger.debug lines are traces,  *)
(* not drop records.                                                       *)
(***************************************************************************)
Call(op, data, to) == [op |-> op, data |-> data, to |-> to]

Outcome(kind, data, addr, calls, drops, raised) ==
    [kind |-> kind, data |-> data, addr |-> addr,
     calls |-> calls, drops |-> drops, raised |-> raised]

NoOutcome == Outcome("none", <<>>, None, <<>>, 0, FALSE)

\* The state when __main__ starts, for a given --alpnProtocol.
Start(requested, cap) ==
    /\ quic_connection = None
    /\ udp_connection_transport = None
    /\ udp_connection_address = None
    /\ pc = "start"
    /\ terminated = FALSE
    /\ peerLog = <<>>
    /\ last = NoOutcome
    /\ alpnProtocol = requested
    /\ selected_alpn = None
    /\ logCap = cap
    /\ udpLog = <<>>
    /\ frameLog = <<>>

\* parser.add_argument("--alpnProtocol", default="coap")
DefaultAlpn == "coap"

Init == Start(DefaultAlpn, 0)

(***************************************************************************)
(* __main__: the choice of the ALPN protocol.                              *)
(***************************************************************************)
allowed_alpns ==
    <<"http/0.9", "http/1.0", "http/1.1", "spdy/1", "spdy/2", "spdy/3",
      "stun.turn", "stun.nat-discovery", "h2", "h2c", "webrtc", "c-webrtc", "ftp", "imap",
      "pop3", "managesieve", "coap", "xmpp-client", "xmpp-server", "acme-tls/1",
      "mqtt", "dot", "ntske/1", "sunrpc", "h3", "smb", "irc", "nntp", "nnsp", "doq",
      "sip/2", "tds/8.0">>

\* x in allowed_alpns
InList(x, list) == \E i \in 1 .. Len(list) : list[i] = x

\* Fault: the requested value is used without the allow-list test.
SelectAlpnUnchecked(requested) == requested

\* if startArgs.alpnProtocol in allowed_alpns: ... else: selected_alpn = ["coap"]
SelectAlpn(requested) == IF InList(requested, allowed_alpns) THEN requested ELSE "coap"

select_alpn ==
    /\ pc = "start"
    /\ selected_alpn' = SelectAlpn(alpnProtocol)
    /\ pc' = "connect"
    /\ UNCHANGED <<quic_connection, udp_connection_transport, udp_connection_address,
                   terminated, peerLog, last, alpnProtocol, logVars>>

(***************************************************************************)
(* main()                                                                  *)
(***************************************************************************)
\* async with connect(...) as client: the handshake completed.
Connect ==
    /\ pc = "connect"
    /\ pc' = "listen"
    /\ UNCHANGED <<quic_connection, udp_connection_transport, udp_connection_address,
                   terminated, peerLog, last, argVars, logVars>>

\* connect(...) raised: asyncio.run propagates it and the process ends.
ConnectFail ==
    /\ pc = "connect"
    /\ pc' = "exit"
    /\ UNCHANGED <<quic_connection, udp_connection_transport, udp_connection_address,
                   terminated, peerLog, last, argVars, logVars>>

\* UdpServerProtocol.connection_made, called by create_datagram_endpoint.
connection_made ==
    /\ pc = "listen"
    /\ udp_connection_transport' = UdpTransport
    /\ pc' = "bound"
    /\ UNCHANGED <<quic_connection, udp_connection_address, terminated, peerLog, last, argVars, logVars>>

\* create_datagram_endpoint raised (port in use): main() unwinds.
BindFail ==
    /\ pc = "listen"
    /\ pc' = "exit"
    /\ UNCHANGED <<quic_connection, udp_connection_transport, udp_connection_address,
                   terminated, peerLog, last, argVars, logVars>>

\* Fault: main() awaits quic_forwarder before udp_listener, so the protocol is
\* published while no socket is bound, and the listener is never started.
quic_forwarder_before_listener ==
    /\ pc = "listen"
    /\ quic_connection' = Self
    /\ pc' = "forward"
    /\ UNCHANGED <<udp_connection_transport, udp_connection_address,
                   terminated, peerLog, last, argVars, logVars>>

\* Fault: a datagram dropped before the publication was queued, and is sent
\* when the protocol is published.
quic_forwarder_flushes_queue ==
    /\ pc = "bound"
    /\ quic_connection' = Self
    /\ pc' = "forward"
    /\ last' = IF last.kind = "udp"
               THEN [last EXCEPT !.calls =
                        <<Call("send_datagram_frame", Encode(last.data), Self),
                          Call("transmit", <<>>, Self)>>]
               ELSE last
    /\ frameLog' = IF last.kind = "udp" THEN Append(frameLog, Encode(last.data))
                   ELSE frameLog
    /\ UNCHANGED <<udp_connection_transport, udp_connection_address,
                   terminated, peerLog, argVars, logCap, udpLog>>

\* QuicClientProtocol.quic_forwarder: publish the protocol, then wait forever.
quic_forwarder ==
    /\ pc = "bound"
    /\ quic_connection' = Self
    /\ pc' = "forward"
    /\ UNCHANGED <<udp_connection_transport, udp_connection_address,
                   terminated, peerLog, last, argVars, logVars>>

(***************************************************************************)
(* UdpServerProtocol.datagram_received(data, addr)                         *)
(***************************************************************************)
\* Fault: the peer is recorded only while none is known.
RecordPeerFirstWins(old, addr) == IF old = None THEN addr ELSE old

\* Fault: the assignment of the peer address is missing.
RecordPeerNever(old, addr) == old

\* udp_connection_address[0] = addr
RecordPeer(old, addr) == addr

\* Fault: the session check is missing.
SessionPresentAlways(qc) == TRUE

\* if quic_connection[0] is not None:
SessionPresent(qc) == qc # None

\* Fault: the frame is handed to the transport twice.
ForwardCallsTwice(qc, data) ==
    <<Call("send_datagram_frame", Encode(data), qc),
      Call("send_datagram_frame", Encode(data), qc),
      Call("transmit", <<>>, qc)>>

\* Fault: the frame is queued but transmit is never requested.
ForwardCallsNoTransmit(qc, data) ==
    <<Call("send_datagram_frame", Encode(data), qc)>>

\* QuicConnection.send_datagram_frame(quic_connection[0]._quic, data)
\* QuicConnectionProtocol.transmit(quic_connection[0])
ForwardCalls(qc, data) ==
    <<Call("send_datagram_frame", Encode(data), qc), Call("transmit", <<>>, qc)>>

UdpOutcome(qc, data, addr) ==
    IF SessionPresent(qc)
    THEN IF PackRaises(Len(data))
         THEN Outcome("udp", data, addr, <<>>, 0, TRUE)
         ELSE Outcome("udp", data, addr, ForwardCalls(qc, data), 0, FALSE)
    ELSE Outcome("udp", data, addr, <<>>, 1, FALSE)

\* The frames passed to send_datagram_frame by a sequence of calls, in order.
RECURSIVE FramesOf(_)
FramesOf(calls) ==
    IF calls = <<>> THEN <<>>
    ELSE (IF Head(calls).op = "send_datagram_frame" THEN <<Head(calls).data>> ELSE <<>>)
             \o FramesOf(Tail(calls))

\* The source addresses of the last PeerWindow datagrams, most recent last.
Remember(log, addr) ==
    IF Len(log) < PeerWindow THEN Append(log, addr) ELSE Append(Tail(log), addr)

datagram_received(data, addr) ==
    /\ pc \in {"bound", "forward"}
    /\ udp_connection_address' = RecordPeer(udp_connection_address, addr)
    /\ peerLog' = Remember(peerLog, addr)
    /\ last' = UdpOutcome(quic_connection, data, addr)
    /\ udpLog' = IF Len(udpLog) < logCap
                 THEN Append(udpLog, [data |-> data, handle |-> quic_connection])
                 ELSE udpLog
    /\ frameLog' = IF Len(udpLog) < logCap
                   THEN frameLog \o FramesOf(last'.calls)
                   ELSE frameLog
    /\ UNCHANGED <<quic_connection, udp_connection_transport, pc, terminated,
                   argVars, logCap>>

(***************************************************************************)
(* QuicClientProtocol.quic_event_received(event)                           *)
(***************************************************************************)
\* if udp_connection_transport[0] is not None:
SocketPresent(sock) == sock # None

\* udp_connection_transport[0].sendto(data_from_server, udp_connection_address[0])
SendtoCalls(peer, data) == <<Call("sendto", DecodePayload(data), peer)>>

QuicOutcome(sock, peer, data) ==
    IF UnpackRaises(Slice(data, 0, 2))
    THEN Outcome("quic", data, None, <<>>, 0, TRUE)
    ELSE IF SocketPresent(sock)
         THEN Outcome("quic", data, None, SendtoCalls(peer, data), 0, FALSE)
         ELSE Outcome("quic", data, None, <<>>, 0, FALSE)

\* The connection delivers events from the end of the handshake until it
\* has reported its termination.
EventsDelivered == pc \in {"listen", "bound", "forward"} /\ ~terminated

DatagramFrameReceived(data) ==
    /\ EventsDelivered
    /\ last' = QuicOutcome(udp_connection_transport, udp_connection_address, data)
    /\ UNCHANGED <<quic_connection, udp_connection_transport, udp_connection_address,
                   pc, terminated, peerLog, argVars, logVars>>

\* Fault: the handler of ConnectionTerminated also forgets the UDP peer.
ConnectionTerminatedClearsPeer ==
    /\ EventsDelivered
    /\ terminated' = TRUE
    /\ udp_connection_address' = None
    /\ last' = Outcome("terminated", <<>>, None, <<>>, 0, FALSE)
    /\ UNCHANGED <<quic_connection, udp_connection_transport, pc, peerLog,
                   argVars, logVars>>

ConnectionTerminated ==
    /\ EventsDelivered
    /\ terminated' = TRUE
    /\ last' = Outcome("terminated", <<>>, None, <<>>, 0, FALSE)
    /\ UNCHANGED <<quic_connection, udp_connection_transport, udp_connection_address,
                   pc, peerLog, argVars, logVars>>

Next ==
    \/ select_alpn
    \/ Connect
    \/ ConnectFail
    \/ connection_made
    \/ BindFail
    \/ quic_forwarder
    \/ \E data \in UdpPayloads, addr \in Addresses : datagram_received(data, addr)
    \/ \E data \in EventData : DatagramFrameReceived(data)
    \/ ConnectionTerminated

Spec == Init /\ [][Next]_vars

(***************************************************************************)
(* The ALPN choice over many requested values: the values of the           *)
(* allow-list and values that are not in it.                               *)
(***************************************************************************)
OtherAlpns ==
    {"", "COAP", "coap ", "coaps", "h4", "h3-29", "http/2", "http/3", "HTTP/1.1",
     "hq-interop", "quic", "tls", "ssh", "smtp", "dns", "mqtts", "spdy/4", "ws",
     "grpc", "lwm2m"}

RequestedAlpns == {allowed_alpns[i] : i \in 1 .. Len(allowed_alpns)} \cup OtherAlpns

InitArgs == \E requested \in RequestedAlpns : Start(requested, 0)

NextArgs == select_alpn

SpecArgs == InitArgs /\ [][NextArgs]_vars

(***************************************************************************)
(* The relay with the history of the UDP-to-transport path kept for the    *)
(* first MaxLog datagrams, on a few payloads, frames and one peer.         *)
(***************************************************************************)
LogPayloads == {Ping, Fill(256)}

LogEventData == {<<0>>, <<0, 0>>, PongFrame}

LogAddresses == {"A"}

InitLog == Start(DefaultAlpn, MaxLog)

NextLog ==
    \/ select_alpn
    \/ Connect
    \/ ConnectFail
    \/ connection_made
    \/ BindFail
    \/ quic_forwarder
    \/ \E data \in LogPayloads, addr \in LogAddresses : datagram_received(data, addr)
    \/ \E data \in LogEventData : DatagramFrameReceived(data)
    \/ ConnectionTerminated

SpecLog == InitLog /\ [][NextLog]_vars

(***************************************************************************)
(* Reading an outcome.                                                     *)
(***************************************************************************)
CallsOf(o, op) == SelectSeq(o.calls, LAMBDA c : c.op = op)

LastPeerSeen == IF peerLog = <<>> THEN None ELSE peerLog[Len(peerLog)]

\* The 16-bit big-endian value of the first two bytes of a frame.
HeaderValue(f) == f[1] * 256 + f[2]

\* The bytes after the 2-byte header.
Body(f) == SubSeq(f, 3, Len(f))

\* decode's remainder: frame[2+L:]
Remainder(f) == Slice(f, 2 + HeaderValue(f), Len(f))

\* The step is one run of datagram_received: the outcome it leaves names the
\* datagram it handled.
UdpHandled == last'.kind = "udp" /\ datagram_received(last'.data, last'.addr)

\* The step is one run of quic_event_received on a DatagramFrameReceived.
QuicHandled == last'.kind = "quic" /\ DatagramFrameReceived(last'.data)

(***************************************************************************)
(* C1: once a connectionTerminated event has been handled, no UDP datagram *)
(* handled afterwards makes the relay call send_datagram_frame.            *)
(***************************************************************************)
C1_NoFrameAfterTerminated ==
    (terminated /\ last.kind = "udp") => CallsOf(last, "send_datagram_frame") = <<>>

(***************************************************************************)
(* C2: a datagramReceived event handled before any UDP datagram arrived    *)
(* sends nothing on the socket and logs exactly one drop; sendto is called *)
(* only when the local socket and the peer address are both present,       *)
(* never with an absent address.                                           *)
(***************************************************************************)
C2_SendtoNeedsSocketAndPeer ==
    /\ (last.kind = "quic" /\ peerLog = <<>>)
           => (CallsOf(last, "sendto") = <<>> /\ last.drops = 1)
    /\ \A i \in 1 .. Len(last.calls) :
           last.calls[i].op = "sendto" =>
               udp_connection_transport # None /\ last.calls[i].to # None

(***************************************************************************)
(* C3: a received frame whose declared length is smaller than the number   *)
(* of bytes after the header is dropped and logged, and nothing is sent to *)
(* the UDP peer for it.                                                    *)
(***************************************************************************)
C3_ShortDeclaredLengthDropped ==
    (/\ last.kind = "quic"
     /\ Len(last.data) >= 2
     /\ HeaderValue(last.data) < Len(last.data) - 2)
        => (CallsOf(last, "sendto") = <<>> /\ last.drops >= 1)

(***************************************************************************)
(* C4: handling a received frame whose declared length exceeds the bytes   *)
(* present after the header sends nothing to the UDP peer, logs the drop   *)
(* and leaves the session as it was.                                       *)
(***************************************************************************)
C4_LongDeclaredLengthDropped ==
    [][(/\ QuicHandled
        /\ Len(last'.data) >= 2
        /\ HeaderValue(last'.data) > Len(last'.data) - 2)
          => (/\ CallsOf(last', "sendto") = <<>>
              /\ last'.drops >= 1
              /\ UNCHANGED <<quic_connection, terminated>>)]_vars

(***************************************************************************)
(* C5: a UDP datagram handled while no transport handle is present calls   *)
(* neither send_datagram_frame nor transmit and logs exactly one drop.     *)
(***************************************************************************)
C5_DropOnDisconnected ==
    [][(quic_connection = None /\ UdpHandled)
          => (last'.calls = <<>> /\ last'.drops = 1 /\ ~last'.raised)]_vars

C5_Witness ==
    /\ last.kind = "udp"
    /\ last.data = Ping
    /\ quic_connection = None
    /\ last.drops = 1

(***************************************************************************)
(* C6: every sendto made for a datagramReceived event that follows some    *)
(* UDP datagram goes to the source address of the most recent UDP datagram *)
(* handled, never to an earlier peer.                                      *)
(***************************************************************************)
C6_LastPeerWins ==
    (last.kind = "quic" /\ peerLog # <<>>)
        => \A i \in 1 .. Len(last.calls) :
               last.calls[i].op = "sendto" => last.calls[i].to = LastPeerSeen

C6_Witness ==
    /\ last.kind = "quic"
    /\ peerLog = <<"A", "B">>
    /\ Len(CallsOf(last, "sendto")) = 1
    /\ CallsOf(last, "sendto")[1].to = "B"

(***************************************************************************)
(* C7: decoding the frame the relay builds for a payload p of 0..65535     *)
(* bytes gives back p as payload and an empty remainder.                   *)
(***************************************************************************)
C7_RoundTrip ==
    \A i \in 1 .. Len(last.calls) :
        last.calls[i].op = "send_datagram_frame" =>
            /\ DecodePayload(last.calls[i].data) = last.data
            /\ Remainder(last.calls[i].data) = <<>>

C7_Witness ==
    /\ last.kind = "udp"
    /\ Len(last.data) = 65535
    /\ Len(CallsOf(last, "send_datagram_frame")) = 1

(***************************************************************************)
(* C8: the first two bytes of the frame handed to the transport are the    *)
(* payload length as an unsigned 16-bit integer, high byte first, and the  *)
(* bytes after them are the payload unchanged.                             *)
(***************************************************************************)
C8_LengthPrefixExact ==
    \A i \in 1 .. Len(last.calls) :
        last.calls[i].op = "send_datagram_frame" =>
            LET f == last.calls[i].data
            IN  /\ Len(f) = 2 + Len(last.data)
                /\ f[1] \in 0 .. 255
                /\ f[2] \in 0 .. 255
                /\ f[1] * 256 + f[2] = Len(last.data)
                /\ Body(f) = last.data

C8_Witness ==
    /\ last.kind = "udp"
    /\ Len(last.data) = 256
    /\ Len(CallsOf(last, "send_datagram_frame")) = 1
    /\ CallsOf(last, "send_datagram_frame")[1].data[1] = 1
    /\ CallsOf(last, "send_datagram_frame")[1].data[2] = 0

(***************************************************************************)
(* C9: a UDP datagram p handled while the session is connected makes       *)
(* exactly one send_datagram_frame call, with encode(p) on the current     *)
(* session, followed in the same callback by one transmit on that session. *)
(***************************************************************************)
C9_SendThenTransmit ==
    [][(quic_connection # None /\ ~terminated /\ UdpHandled)
          => (/\ Len(last'.calls) = 2
              /\ last'.calls[1] =
                     Call("send_datagram_frame", Encode(last'.data), quic_connection)
              /\ last'.calls[2] = Call("transmit", <<>>, quic_connection)
              /\ ~last'.raised)]_vars

C9_Witness ==
    /\ last.kind = "udp"
    /\ last.data = Ping
    /\ ~terminated
    /\ last.calls = <<Call("send_datagram_frame", <<0, 4, 112, 105, 110, 103>>, Self),
                      Call("transmit", <<>>, Self)>>

(***************************************************************************)
(* C10: a well-formed received frame handled when a peer has been recorded *)
(* makes exactly one sendto call, with the bytes after the 2-byte header,  *)
(* to the recorded peer.                                                   *)
(***************************************************************************)
WellFormed(f) == Len(f) >= 2 /\ HeaderValue(f) = Len(f) - 2

C10_WellFormedForwarded ==
    (last.kind = "quic" /\ WellFormed(last.data) /\ udp_connection_address # None)
        => last.calls = <<Call("sendto", Body(last.data), udp_connection_address)>>

C10_Witness ==
    /\ last.kind = "quic"
    /\ last.data = PongFrame
    /\ udp_connection_address = "A"
    /\ last.calls = <<Call("sendto", <<112, 111, 110, 103>>, "A")>>

(***************************************************************************)
(* C11: a UDP datagram handled before the handle is published is dropped   *)
(* and logged and no frame is sent for it, neither then nor at the moment  *)
(* the handle is published; a UDP datagram handled once the session is     *)
(* connected is forwarded.                                                 *)
(***************************************************************************)
C11_NoQueueing ==
    [][/\ (quic_connection = None /\ UdpHandled)
             => (last'.calls = <<>> /\ last'.drops = 1 /\ frameLog' = frameLog)
       /\ (quic_connection = None /\ quic_connection' # None)
             => (frameLog' = frameLog /\ last' = last)
       /\ (quic_connection # None /\ ~terminated /\ UdpHandled)
             => FramesOf(last'.calls) = <<Encode(last'.data)>>]_vars

\* A datagram dropped before the publication, the same content forwarded after.
C11_Witness ==
    /\ Len(udpLog) = 2
    /\ udpLog[1] = [data |-> Ping, handle |-> None]
    /\ udpLog[2] = [data |-> Ping, handle |-> Self]
    /\ frameLog = <<Encode(Ping)>>
    /\ ~terminated

(***************************************************************************)
(* C12: the transport handle is absent once a connectionTerminated event   *)
(* has been handled and never present afterwards, and a present handle is  *)
(* never replaced by another one.                                          *)
(***************************************************************************)
C12_HandleLifecycle ==
    [][/\ terminated' => quic_connection' = None
       /\ quic_connection # None => quic_connection' \in {quic_connection, None}]_vars

(***************************************************************************)
(* C13: every datagram the relay receives, in either direction, and does   *)
(* not forward leaves a logged drop, also a datagramReceived event handled *)
(* while the UDP socket is not bound.                                      *)
(***************************************************************************)
Forwarded(o) ==
    CallsOf(o, "sendto") # <<>> \/ CallsOf(o, "send_datagram_frame") # <<>>

C13_NoSilentDrop ==
    (last.kind \in {"udp", "quic"} /\ ~last.raised /\ ~Forwarded(last))
        => last.drops >= 1

(***************************************************************************)
(* C14: no handler run raises, whatever its input, also for a received     *)
(* event whose data is shorter than the 2-byte header.                     *)
(***************************************************************************)
C14_HandlersTotal == ~last.raised

(***************************************************************************)
(* C15: a UDP payload longer than 65535 bytes, or whose frame of 2 + len   *)
(* bytes exceeds the maximum datagram frame size, is rejected and logged   *)
(* and never handed to send_datagram_frame.                                *)
(***************************************************************************)
Oversized(data) == Len(data) > 65535 \/ 2 + Len(data) > max_datagram_frame_size

C16_PeerRecordedAlways == last.kind = "udp" => udp_connection_address = last.addr

C16_Witness ==
    /\ last.kind = "udp"
    /\ last.drops = 1
    /\ last.calls = <<>>
    /\ peerLog = <<"A", "B">>
    /\ udp_connection_address = "B"

(***************************************************************************)
(* C17: the peer address and the local socket, once present, never become  *)
(* absent, and handling a transport event leaves both unchanged.           *)
(***************************************************************************)
C17_PeerAndSocketPersist ==
    [][/\ udp_connection_address # None => udp_connection_address' # None
       /\ udp_connection_transport # None => udp_connection_transport' # None
       /\ (QuicHandled \/ ConnectionTerminated)
             => UNCHANGED <<udp_connection_address, udp_connection_transport>>]_vars

C17_Witness ==
    /\ last.kind = "terminated"
    /\ udp_connection_address = "A"
    /\ udp_connection_transport = UdpTransport

(***************************************************************************)
(* C18: the ALPN value chosen at startup is a member of the allow-list:    *)
(* the requested value if that is in the allow-list, "coap" otherwise, and *)
(* "coap" is in the allow-list.                                            *)
(***************************************************************************)
C18_AlpnInAllowList ==
    /\ \E i \in 1 .. Len(allowed_alpns) : allowed_alpns[i] = "coap"
    /\ selected_alpn # None =>
          /\ \E i \in 1 .. Len(allowed_alpns) : allowed_alpns[i] = selected_alpn
          /\ (\E i \in 1 .. Len(allowed_alpns) : allowed_alpns[i] = alpnProtocol)
                => selected_alpn = alpnProtocol
          /\ (\A i \in 1 .. Len(allowed_alpns) : allowed_alpns[i] # alpnProtocol)
                => selected_alpn = "coap"

C18_Witness ==
    /\ pc = "connect"
    /\ alpnProtocol = "COAP"
    /\ selected_alpn = "coap"

(***************************************************************************)
(* C19: the frames passed to send_datagram_frame are, in order and one per *)
(* datagram, the encodings of the UDP datagrams handled while a transport  *)
(* handle was present: none reordered, duplicated or invented.             *)
(***************************************************************************)
RECURSIVE ExpectedFrames(_)
ExpectedFrames(log) ==
    IF log = <<>> THEN <<>>
    ELSE (IF Head(log).handle # None
          THEN <<<<Len(Head(log).data) \div 256, Len(Head(log).data) % 256>>
                    \o Head(log).data>>
          ELSE <<>>)
             \o ExpectedFrames(Tail(log))

C19_FramesFollowDatagrams == frameLog = ExpectedFrames(udpLog)

C19_Witness ==
    /\ Len(udpLog) = 3
    /\ udpLog[1].handle = None
    /\ udpLog[2] = [data |-> Fill(256), handle |-> Self]
    /\ udpLog[3] = [data |-> Ping, handle |-> Self]
    /\ Len(frameLog) = 2
    /\ frameLog[2] = <<0, 4, 112, 105, 110, 103>>

(***************************************************************************)
(* C20: the transport handle is published only after the UDP socket is     *)
(* bound: a present handle implies a present socket, and so does a present *)
(* peer address.                                                           *)
(***************************************************************************)
C20_SocketBoundFirst ==
    /\ quic_connection # None => udp_connection_transport # None
    /\ udp_connection_address # None => udp_connection_transport # None

\* A transport event handled while the handle is not yet published.
C20_Witness ==
    /\ last.kind = "quic"
    /\ last.calls # <<>>
    /\ udp_connection_transport # None
    /\ quic_connection = None

====
